---- MODULE Spec2Model ----
(***************************************************************************)
(* actix-ratelimit: the admission procedure of RateLimitMiddleware::call   *)
(* (src/src/middleware.rs) driving a store actor through the Get / Set /   *)
(* Update / Expire / Remove messages.  Two store actors are modelled:      *)
(*   - MemoryStore (src/src/stores/memory.rs), specification Spec;         *)
(*   - RedisStore + RedisStoreActor (src/src/stores/redis.rs),             *)
(*     specifications SpecRedis and SpecRedisFair.                         *)
(* SpecStore drives the handlers of MemoryStore, RedisStoreActor and       *)
(* MemcacheStoreActor (src/src/stores/memcached.rs) message by message.    *)
(* SpecMemcached drives MemcacheStoreActor alone, with calls to the        *)
(* memcached server that may fail.                                         *)
(* SpecConfig is Spec for every max_requests a RateLimiter can be built    *)
(* with; SpecLib is the middleware of src/src/lib.rs; SpecPool is          *)
(* MemcacheStore, MemcacheStoreActor and the r2d2 connection pools.        *)
(* Time is counted in ticks, TicksPerSec ticks to the second, so that the  *)
(* sub-second part of a Duration and its truncation by as_secs() exist.    *)
(***************************************************************************)
EXTENDS Integers, Sequences, FiniteSets, TLC

(***************************************************************************)
(* Bounds of the model.                                                    *)
(***************************************************************************)
\* request futures that can be in flight at the same time
NReq == 2
\* requests issued in one behaviour (a request slot is reused once done)
MaxStarts == 3
\* RateLimiter::with_max_requests(..), RateLimiter::with_interval(..) (seconds)
max_requests == 2
interval == 1
\* resolution of the clock, and the last tick of a behaviour
TicksPerSec == 2
MaxTime == 3
\* a deferred message (notify_later) is handled at most MaxLate ticks late
MaxLate == 1
\* width of usize, scaled down from 64 bits
UsizeBits == 3
\* increments of the backoff interval until it reaches max_interval
MaxLevel == 1
\* messages the client of SpecStore sends in one behaviour
MaxOps == 3
\* Pool::builder().max_size(15), scaled down
PoolSize == 1
\* pools that MemcacheStore builds in one behaviour
MaxPools == 2

Reqs == 1..NReq
Keys == {"a"}
UsizeModulus == 2 ^ UsizeBits

\* Option<T>
None == << >>
Some(v) == << v >>
\* Result<T, ARError>
Ok(v) == [ok |-> TRUE, val |-> v, err |-> ""]
Err(e) == [ok |-> FALSE, val |-> << >>, err |-> e]
\* Duration::from_secs, Duration::as_secs
FromSecs(s) == s * TicksPerSec
AsSecs(d) == d \div TicksPerSec
\* a header that was not set
NoHeader == -1

\* the store client before its first message.  n counts its messages; op,
\* key, arg, res and at are the last message, its answer and its time; set
\* is the last Set the store accepted and expired the durations that the
\* successful Expire messages returned since then, in order
IdleProbe ==
    [n |-> 0, op |-> "none", key |-> "a", arg |-> 0, tag |-> "none",
     res |-> Ok(<< >>), at |-> 0, set |-> None, expired |-> << >>,
     io |-> <<TRUE, TRUE>>]

\* a caller of MemcacheStoreActor that has sent nothing; conn is the pool its
\* future holds a connection of (0: none), res is "Ok" or the error of the
\* last response
IdleCaller == [pc |-> "idle", op |-> "none", res |-> "none", conn |-> 0]

\* MemcacheStore::connect (memcached.rs:37-48): the first pool is built and
\* put into client (0 stands for None), the actors are not started yet
PoolInit ==
    [client |-> 1, built |-> 1, state |-> "starting", stop |-> FALSE,
     inner |-> 0, astate |-> "waiting", astop |-> FALSE]

VARIABLES
    now,          \* the clock (SystemTime / redis server time), in ticks
    req,          \* req[r]: the future returned by RateLimitMiddleware::call
    started,      \* requests issued so far
    inner,        \* MemoryStore.inner: key -> (count, absolute expiry)
    timers,       \* MemoryStore context: pending notify_later(Remove(key))
    alive,        \* the MemoryStore actor is running (its handler never panicked)
    overflow_checks, \* the build: TRUE panics on integer overflow, FALSE wraps
    rdb,          \* the redis server's keyspace: key -> (value, absolute expiry)
    serviceUp,    \* the redis server accepts and serves connections
    rs,           \* the RedisStore actor
    ra,           \* the RedisStoreActor actor
    epoch,        \* history: epoch[k] = SET commands the server ran for k
    admitted,     \* history (Spec): requests forwarded in k's current window
    sequential,   \* history: no two requests were ever in flight together
    backend,      \* the store actor in use: "memory", "redis" or "memcached"
    mc,           \* the memcached server's keyspace: key -> (value, expiry)
    probe,        \* a client of the store actor: its last message and the answer
    limiter,      \* the RateLimiter as built: its field max_requests
    pool,         \* MemcacheStore (client, the pools built) and MemcacheStoreActor (inner)
    callers       \* callers[c]: a caller of MemcacheStoreActor and its message

memVars == << inner, timers, alive, overflow_checks >>
redisVars == << rdb, serviceUp, rs, ra, epoch >>
storeVars == << backend, mc, probe >>
extVars == << limiter, pool, callers >>
vars == << now, req, started, memVars, redisVars, admitted, sequential, storeVars,
           extVars >>

(***************************************************************************)
(* RateLimitMiddleware::call, src/src/middleware.rs:156-256.               *)
(* A response is [tag, res]: the ActorResponse variant and the awaited     *)
(* result; MailboxError is what store.send(..).await gives when the actor  *)
(* is gone.                                                                *)
(***************************************************************************)
Response(tag, res) == [tag |-> tag, res |-> res, delivered |-> TRUE]
MailboxError == [tag |-> "none", res |-> Err("MailboxError"), delivered |-> FALSE]

IdleReq ==
    [pc |-> "idle", key |-> "a", c |-> 0, value |-> 0, epoch |-> 0, reset |-> 0,
     branch |-> "none",
     status |-> 0, limit |-> NoHeader, remaining |-> NoHeader,
     hreset |-> NoHeader, failed |-> FALSE, err |-> "", forwarded |-> FALSE,
     idx |-> 0, identified |-> TRUE]

InFlight(r) == req[r].pc \notin {"idle", "done"}

\* an error converted to actix_web::Error: 500 (ErrorInternalServerError, or
\* ARError as ResponseError)
Reject500(rq, e) ==
    [rq EXCEPT !.pc = "done", !.status = 500, !.failed = TRUE, !.err = e,
               !.value = 0, !.reset = 0]
\* unreachable!() was reached: the request future panics, no response is written
Panicked(rq, e) ==
    [rq EXCEPT !.pc = "done", !.status = -1, !.failed = TRUE, !.err = e,
               !.value = 0, !.reset = 0]

\* mutant: the new window starts with the whole quota still to spend
NewClientValue_NotCounted == max_requests

\* a subtraction on usize (middleware.rs:220, memory.rs:65): with overflow
\* checks a result below 0 panics, without them it wraps
SubUsize(a, b) ==
    IF a >= b THEN [panic |-> FALSE, val |-> a - b]
    ELSE IF overflow_checks THEN [panic |-> TRUE, val |-> 0]
    ELSE [panic |-> FALSE, val |-> (a - b + UsizeModulus) % UsizeModulus]

\* middleware.rs:220: let current_value = max_requests - 1
CurrentValue == SubUsize(limiter.max_requests, 1)

\* middleware.rs:220-224: the value sent with Set
NewClientValue == CurrentValue.val

\* mutant: the result of the identifier is not looked at
AfterIdentifier_Unchecked(rq, k, idOk) ==
    [rq EXCEPT !.pc = "get", !.key = k, !.identified = idOk]

\* middleware.rs:163: (identifier)(&req)? ; identified keeps what the
\* identifier function returned, Ok or Err
AfterIdentifier(rq, k, idOk) ==
    IF idOk THEN [rq EXCEPT !.pc = "get", !.key = k, !.identified = TRUE]
    ELSE [(Reject500(rq, "IdentificationError")) EXCEPT !.key = k, !.failed = FALSE,
                                                         !.identified = FALSE]

\* middleware.rs:164-170, 218, 251-253
AfterGet(rq, resp) ==
    IF ~resp.delivered THEN Reject500(rq, resp.res.err)
    ELSE IF resp.tag # "Get" THEN Panicked(rq, resp.res.err)
    ELSE IF ~resp.res.ok THEN Reject500(rq, resp.res.err)
    ELSE IF resp.res.val = None THEN [rq EXCEPT !.pc = "set", !.branch = "new"]
    ELSE [rq EXCEPT !.pc = "expire", !.branch = "existing", !.c = resp.res.val[1]]

\* middleware.rs:179-186: the limit-exceeded response
TooManyRequests(rq, reset) ==
    [rq EXCEPT !.pc = "done", !.status = 429, !.limit = limiter.max_requests,
               !.remaining = rq.c, !.hreset = AsSecs(reset)]

\* middleware.rs:172-187
AfterExpire(rq, resp) ==
    IF ~resp.delivered THEN Reject500(rq, resp.res.err)
    ELSE IF resp.tag # "Expire" THEN Panicked(rq, resp.res.err)
    ELSE IF ~resp.res.ok THEN Reject500(rq, resp.res.err)
    ELSE IF rq.c = 0 THEN TooManyRequests(rq, resp.res.val)
    ELSE [rq EXCEPT !.pc = "update", !.reset = resp.res.val]

\* mutant: the count read by Get, less one, is reported
AfterUpdate_ReportsGetValue(rq, resp) ==
    IF ~resp.delivered THEN Reject500(rq, resp.res.err)
    ELSE IF resp.tag # "Update" THEN Panicked(rq, resp.res.err)
    ELSE IF ~resp.res.ok THEN Reject500(rq, resp.res.err)
    ELSE [rq EXCEPT !.pc = "call", !.value = rq.c - 1]

\* middleware.rs:189-198: updated_value is what Update returned
AfterUpdate(rq, resp) ==
    IF ~resp.delivered THEN Reject500(rq, resp.res.err)
    ELSE IF resp.tag # "Update" THEN Panicked(rq, resp.res.err)
    ELSE IF ~resp.res.ok THEN Reject500(rq, resp.res.err)
    ELSE [rq EXCEPT !.pc = "call", !.value = resp.res.val]

\* mutant: the answer to Set is not looked at
AfterSet_IgnoresError(rq, resp) ==
    [rq EXCEPT !.pc = "call", !.value = NewClientValue, !.reset = FromSecs(interval)]

\* middleware.rs:221-231
AfterSet(rq, resp) ==
    IF ~resp.delivered THEN Reject500(rq, resp.res.err)
    ELSE IF resp.tag # "Set" THEN Panicked(rq, resp.res.err)
    ELSE IF ~resp.res.ok THEN Reject500(rq, resp.res.err)
    ELSE [rq EXCEPT !.pc = "call", !.value = NewClientValue,
                    !.reset = FromSecs(interval)]

\* middleware.rs:200-216 and 232-248: srv.call(req), then the three headers
AfterCall(rq, svcOk, n) ==
    IF svcOk
    THEN [rq EXCEPT !.pc = "done", !.status = 200, !.forwarded = TRUE, !.idx = n,
                    !.limit = limiter.max_requests, !.remaining = rq.value,
                    !.hreset = AsSecs(rq.reset), !.value = 0, !.reset = 0]
    ELSE [rq EXCEPT !.pc = "done", !.status = 500, !.forwarded = TRUE, !.idx = n,
                    !.err = "service", !.value = 0, !.reset = 0]

(***************************************************************************)
(* MemoryStore, src/src/stores/memory.rs.  A handler gives                 *)
(* [resp, inner, timers, panic].                                           *)
(***************************************************************************)
Handled(resp, m, t) == [resp |-> resp, inner |-> m, timers |-> t, panic |-> FALSE]
\* mutant: the deferred messages outlive the actor
HandlerPanic_KeepsTimers ==
    [resp |-> MailboxError, inner |-> inner, timers |-> timers, panic |-> TRUE]

HandlerPanic == [resp |-> MailboxError, inner |-> inner, timers |-> {}, panic |-> TRUE]

Insert(m, k, e) == [x \in (DOMAIN m) \cup {k} |-> IF x = k THEN e ELSE m[x]]
RemoveKey(m, k) == [x \in (DOMAIN m) \ {k} |-> m[x]]

\* ctx.notify_later(Messages::Remove(key), expiry): one more pending timer
NotifyLater(t, k, due) ==
    t \cup {[key |-> k, due |-> due,
             n |-> Cardinality({x \in t : x.key = k /\ x.due = due})]}

\* mutant: the entry is inserted and no Remove is scheduled
MemorySet_NoRemoveScheduled(k, value, expiry) ==
    Handled(Response("Set", Ok(<<>>)),
            Insert(inner, k, [count |-> value, expiry |-> now + expiry]),
            timers)

\* memory.rs:49-60
MemorySet(k, value, expiry) ==
    Handled(Response("Set", Ok(<<>>)),
            Insert(inner, k, [count |-> value, expiry |-> now + expiry]),
            NotifyLater(timers, k, now + expiry))

\* mutant: the count is raised instead of lowered
MemoryUpdate_Adds(k, value) ==
    IF k \in DOMAIN inner
    THEN Handled(Response("Update", Ok(inner[k].count + value)),
                 [inner EXCEPT ![k].count = @ + value], timers)
    ELSE Handled(Response("Update", Err("ReadWriteError")), inner, timers)

\* memory.rs:61-77
MemoryUpdate(k, value) ==
    IF k \in DOMAIN inner
    THEN LET s == SubUsize(inner[k].count, value)
         IN IF s.panic THEN HandlerPanic
            ELSE Handled(Response("Update", Ok(s.val)),
                         [inner EXCEPT ![k].count = s.val], timers)
    ELSE Handled(Response("Update", Err("ReadWriteError")), inner, timers)

\* memory.rs:78-93
MemoryGet(k) ==
    IF k \in DOMAIN inner
    THEN Handled(Response("Get", Ok(Some(inner[k].count))), inner, timers)
    ELSE Handled(Response("Get", Ok(None)), inner, timers)

\* mutant: the stored absolute expiry is returned as it is
MemoryExpire_Absolute(k) ==
    IF k \in DOMAIN inner
    THEN Handled(Response("Expire", Ok(inner[k].expiry)), inner, timers)
    ELSE Handled(Response("Expire", Err("ReadWriteError")), inner, timers)

\* mutant: asking for the remaining time pushes the expiry one tick further
MemoryExpire_Extends(k) ==
    IF k \in DOMAIN inner
    THEN IF inner[k].expiry >= now
         THEN Handled(Response("Expire", Ok(inner[k].expiry - now)),
                      [inner EXCEPT ![k].expiry = @ + 1], timers)
         ELSE HandlerPanic
    ELSE Handled(Response("Expire", Err("ReadWriteError")), inner, timers)

\* memory.rs:94-107: dur - now on Duration panics when now is later than dur
MemoryExpire(k) ==
    IF k \in DOMAIN inner
    THEN IF inner[k].expiry >= now
         THEN Handled(Response("Expire", Ok(inner[k].expiry - now)), inner, timers)
         ELSE HandlerPanic
    ELSE Handled(Response("Expire", Err("ReadWriteError")), inner, timers)

\* memory.rs:108-119
MemoryRemove(k) ==
    IF k \in DOMAIN inner
    THEN Handled(Response("Remove", Ok(inner[k].count)), RemoveKey(inner, k), timers)
    ELSE Handled(Response("Remove", Err("ReadWriteError")), inner, timers)

\* store.send(msg).await against the MemoryStore actor
MemorySend(h) == IF alive THEN h ELSE [HandlerPanic EXCEPT !.timers = timers]

(***************************************************************************)
(* Actions of Spec: one request step per store message.                    *)
(***************************************************************************)
StoreEffect(h) ==
    /\ inner' = h.inner
    /\ timers' = h.timers
    /\ alive' = (alive /\ ~h.panic)

Start(r, k, idOk) ==
    /\ ~InFlight(r)
    /\ \A o \in Reqs : o < r => InFlight(o)
    /\ started < MaxStarts
    /\ started' = started + 1
    /\ req' = [req EXCEPT ![r] = AfterIdentifier(IdleReq, k, idOk)]
    /\ sequential' = (sequential /\ \A o \in Reqs \ {r} : ~InFlight(o))
    /\ UNCHANGED << extVars, now, memVars, redisVars, admitted, storeVars >>

Get(r) ==
    /\ req[r].pc = "get"
    /\ LET h == MemorySend(MemoryGet(req[r].key))
       IN /\ req' = [req EXCEPT ![r] = AfterGet(@, h.resp)]
          /\ StoreEffect(h)
    /\ UNCHANGED << extVars, now, started, overflow_checks, redisVars, admitted, sequential, storeVars >>

Expire(r) ==
    /\ req[r].pc = "expire"
    /\ LET h == MemorySend(MemoryExpire(req[r].key))
       IN /\ req' = [req EXCEPT ![r] = AfterExpire(@, h.resp)]
          /\ StoreEffect(h)
    /\ UNCHANGED << extVars, now, started, overflow_checks, redisVars, admitted, sequential, storeVars >>

Update(r) ==
    /\ req[r].pc = "update"
    /\ LET h == MemorySend(MemoryUpdate(req[r].key, 1))
       IN /\ req' = [req EXCEPT ![r] = AfterUpdate(@, h.resp)]
          /\ StoreEffect(h)
    /\ UNCHANGED << extVars, now, started, overflow_checks, redisVars, admitted, sequential, storeVars >>

Set(r) ==
    /\ req[r].pc = "set"
    /\ IF CurrentValue.panic
       THEN /\ req' = [req EXCEPT ![r] = Panicked(@, "attempt to subtract with overflow")]
            /\ UNCHANGED << inner, timers, alive, admitted >>
       ELSE LET k == req[r].key
                h == MemorySend(MemorySet(k, NewClientValue, FromSecs(interval)))
            IN /\ req' = [req EXCEPT ![r] = AfterSet(@, h.resp)]
               /\ StoreEffect(h)
               /\ admitted' = IF alive /\ k \notin DOMAIN inner
                              THEN [admitted EXCEPT ![k] = 0] ELSE admitted
    /\ UNCHANGED << extVars, now, started, overflow_checks, redisVars, sequential, storeVars >>

Call(r, svcOk) ==
    /\ req[r].pc = "call"
    /\ LET k == req[r].key
       IN /\ admitted' = [admitted EXCEPT ![k] = @ + 1]
          /\ req' = [req EXCEPT ![r] = AfterCall(@, svcOk, admitted[k] + 1)]
    /\ UNCHANGED << extVars, now, started, memVars, redisVars, sequential, storeVars >>

\* the deferred Messages::Remove(key) reaches the handler
Evict(t) ==
    /\ alive
    /\ t \in timers
    /\ t.due <= now
    /\ LET h == MemoryRemove(t.key)
       IN /\ inner' = h.inner
          /\ timers' = h.timers \ {t}
    /\ UNCHANGED << extVars, now, req, started, alive, overflow_checks, redisVars, admitted,
                    sequential, storeVars >>

Tick ==
    /\ now < MaxTime
    /\ \A t \in timers : now < t.due + MaxLate
    /\ now' = now + 1
    /\ UNCHANGED << extVars, req, started, memVars, redisVars, admitted, sequential, storeVars >>


(***************************************************************************)
(* The redis server: SET .. EX, DECRBY, GET, TTL on its keyspace.  A key   *)
(* whose expiry is reached is gone (RedisTick removes it).                 *)
(***************************************************************************)
NoTTL == -1

\* SET key value EX secs
CmdSET(db, k, v, secs) ==
    Insert(db, k, [value |-> v, expiry |-> now + FromSecs(secs)])

\* mutant: the decrement rewrites the key without its TTL
CmdDECRBY_DropsTTL(db, k, d) ==
    IF k \in DOMAIN db
    THEN [db EXCEPT ![k] = [value |-> @.value - d, expiry |-> NoTTL]]
    ELSE Insert(db, k, [value |-> 0 - d, expiry |-> NoTTL])

\* DECRBY key d: a missing key counts as 0 and is created without a TTL
CmdDECRBY(db, k, d) ==
    IF k \in DOMAIN db THEN [db EXCEPT ![k].value = @ - d]
    ELSE Insert(db, k, [value |-> 0 - d, expiry |-> NoTTL])

\* TTL key: -2 no key, -1 no TTL, else the remaining time rounded to seconds
CmdTTL(db, k) ==
    IF k \notin DOMAIN db THEN -2
    ELSE IF db[k].expiry = NoTTL THEN -1
    ELSE (2 * (db[k].expiry - now) + TicksPerSec) \div (2 * TicksPerSec)

\* mutant: a negative reply is taken modulo the width of usize
FromRedisUsize_Wrapping(n) == Ok(n % UsizeModulus)

\* query_async::<_, usize>: an integer reply below 0 is no usize
FromRedisUsize(n) == IF n >= 0 THEN Ok(n) ELSE Err("ReadWriteError(parse)")

(***************************************************************************)
(* RedisStoreActor, src/src/stores/redis.rs:166-246.  A handler gives      *)
(* [resp, rdb, stop]: the response, the keyspace after the command, and    *)
(* whether ctx.stop() was called.                                          *)
(***************************************************************************)
RedisDone(resp, db) == [resp |-> resp, rdb |-> db, stop |-> FALSE]

\* mutant: a command on a broken connection is taken to have run
RedisHandle_IgnoresBrokenConnection(tag, onLive) ==
    IF ra.inner = "none"
    THEN [resp |-> Response("Set", Err("Disconnected")), rdb |-> rdb, stop |-> TRUE]
    ELSE onLive

\* redis.rs:169-170, 241-245: the connection the handler clones, if any
RedisHandle(tag, onLive) ==
    IF ra.inner = "none"
    THEN [resp |-> Response("Set", Err("Disconnected")), rdb |-> rdb, stop |-> TRUE]
    ELSE IF ra.inner = "dead"
    THEN RedisDone(Response(tag, Err("ReadWriteError(io)")), rdb)
    ELSE onLive

\* redis.rs:172-186
RedisSet(k, value, expiry) ==
    RedisHandle("Set",
        RedisDone(Response("Set", Ok(<<>>)), CmdSET(rdb, k, value, AsSecs(expiry))))

\* redis.rs:187-199
RedisUpdate(k, value) ==
    RedisHandle("Update",
        LET db == CmdDECRBY(rdb, k, value)
        IN RedisDone(Response("Update", FromRedisUsize(db[k].value)), db))

\* redis.rs:200-211
RedisGet(k) ==
    RedisHandle("Get",
        IF k \in DOMAIN rdb
        THEN LET v == FromRedisUsize(rdb[k].value)
             IN RedisDone(Response("Get", IF v.ok THEN Ok(Some(v.val)) ELSE v), rdb)
        ELSE RedisDone(Response("Get", Ok(None)), rdb))

\* redis.rs:212-228
RedisExpire(k) ==
    RedisHandle("Expire",
        LET c == CmdTTL(rdb, k)
        IN IF c > 0 THEN RedisDone(Response("Expire", Ok(FromSecs(c))), rdb)
           ELSE RedisDone(Response("Expire", Err("ReadWriteError(ttl)")), rdb))

\* redis.rs:159-164 then 113-115: ctx.stop() under the Supervisor: restarting()
\* takes the connection, started() sends GetAddr and waits; pending timers go
RaRestarted == [ra EXCEPT !.state = "waiting", !.inner = "none", !.stop = FALSE]

\* redis.rs:81-86 then 52-59: the struct, its backoff included, is kept
RsRestarted == [rs EXCEPT !.state = "connecting", !.client = "none", !.stop = FALSE]

\* ExponentialBackoff of RedisStore (redis.rs:39-40), as the number of times
\* its current interval was raised since the last reset.  next_backoff()
\* gives a delay drawn around the current interval and raises the interval
\* (up to max_interval); reset() puts it back to the initial interval.
RsBackoffNext(level) == IF level < MaxLevel THEN level + 1 ELSE MaxLevel
RsBackoffReset == 0

\* redis.rs:60-76: the connection attempt of RedisStore::started ended;
\* act.backoff.reset() (line 75) runs after either outcome
RsStarted(conOk) ==
    IF conOk
    THEN [state |-> "connected", client |-> "live", stop |-> FALSE,
          level |-> RsBackoffReset]
    ELSE \* next_backoff() (line 69) raised the interval, reset() undoes it
         [state |-> "failed", client |-> "none", stop |-> TRUE,
          level |-> RsBackoffReset]

\* redis.rs:88-101: Handler<GetAddr> for RedisStore
GetAddr ==
    IF rs.client # "none" THEN [res |-> Ok(rs.client), rs |-> rs]
    ELSE [res |-> Err("NotConnected"),
          rs |-> [rs EXCEPT !.stop = TRUE, !.level = RsBackoffNext(@)]]

\* redis.rs:139-149: the actor's backoff keeps ExponentialBackoff::default()'s
\* max_elapsed_time, after which next_backoff() is None
RaNextBackoff == IF ra.exhausted THEN None ELSE Some(1)

\* redis.rs:116-134: the answer to GetAddr reached RedisStoreActor::started
RaStarted(res) ==
    IF res.ok THEN [ra EXCEPT !.state = "running", !.inner = res.val]
    ELSE [ra EXCEPT !.state = "running", !.stop = (RaNextBackoff # None)]

(***************************************************************************)
(* Actions of SpecRedis.                                                   *)
(***************************************************************************)
RedisEffect(h) ==
    /\ rdb' = h.rdb
    /\ ra' = IF h.stop THEN RaRestarted ELSE ra
    /\ UNCHANGED << extVars, serviceUp, rs >>

\* history: the epoch of its key that a request's Get saw
SawEpoch(rq) == IF rq.pc = "expire" THEN [rq EXCEPT !.epoch = epoch[rq.key]] ELSE rq

RGet(r) ==
    /\ req[r].pc = "get"
    /\ ra.state = "running"
    /\ LET h == RedisGet(req[r].key)
       IN /\ req' = [req EXCEPT ![r] = SawEpoch(AfterGet(@, h.resp))]
          /\ RedisEffect(h)
    /\ UNCHANGED << extVars, now, started, memVars, epoch, admitted, sequential, storeVars >>

RExpire(r) ==
    /\ req[r].pc = "expire"
    /\ ra.state = "running"
    /\ LET h == RedisExpire(req[r].key)
       IN /\ req' = [req EXCEPT ![r] = AfterExpire(@, h.resp)]
          /\ RedisEffect(h)
    /\ UNCHANGED << extVars, now, started, memVars, epoch, admitted, sequential, storeVars >>

RUpdate(r) ==
    /\ req[r].pc = "update"
    /\ ra.state = "running"
    /\ LET h == RedisUpdate(req[r].key, 1)
       IN /\ req' = [req EXCEPT ![r] = AfterUpdate(@, h.resp)]
          /\ RedisEffect(h)
    /\ UNCHANGED << extVars, now, started, memVars, epoch, admitted, sequential, storeVars >>

RSet(r) ==
    /\ req[r].pc = "set"
    /\ ra.state = "running"
    /\ LET k == req[r].key
           h == RedisSet(k, NewClientValue, FromSecs(interval))
       IN /\ req' = [req EXCEPT ![r] = AfterSet(@, h.resp)]
          /\ RedisEffect(h)
          /\ epoch' = IF ra.inner = "live"
                      THEN [epoch EXCEPT ![k] = @ + 1] ELSE epoch
    /\ UNCHANGED << extVars, now, started, memVars, admitted, sequential, storeVars >>

\* srv.call(req); the per-window history (admitted, idx) is kept under Spec only
RCall(r, svcOk) ==
    /\ req[r].pc = "call"
    /\ req' = [req EXCEPT ![r] = AfterCall(@, svcOk, 0)]
    /\ UNCHANGED << extVars, now, started, memVars, redisVars, admitted, sequential, storeVars >>

RsConnect ==
    /\ rs.state = "connecting"
    /\ rs' = RsStarted(serviceUp)
    /\ UNCHANGED << extVars, now, req, started, memVars, epoch, rdb, serviceUp, ra, admitted,
                    sequential, storeVars >>

RsStop ==
    /\ rs.stop
    /\ rs' = RsRestarted
    /\ UNCHANGED << extVars, now, req, started, memVars, epoch, rdb, serviceUp, ra, admitted,
                    sequential, storeVars >>

RaGetAddr ==
    /\ ra.state = "waiting"
    /\ rs.state # "connecting"
    /\ rs' = GetAddr.rs
    /\ ra' = RaStarted(GetAddr.res)
    /\ UNCHANGED << extVars, now, req, started, memVars, epoch, rdb, serviceUp, admitted,
                    sequential, storeVars >>

RaStop ==
    /\ ra.state = "running"
    /\ ra.stop
    /\ ra' = RaRestarted
    /\ UNCHANGED << extVars, now, req, started, memVars, epoch, rdb, serviceUp, rs, admitted,
                    sequential, storeVars >>

\* more than max_elapsed_time has passed since the actor's backoff was made;
\* observed where next_backoff() is about to be called (a failing GetAddr)
RaBackoffElapsed ==
    /\ ~ra.exhausted
    /\ ra.state = "waiting"
    /\ rs.state # "connecting"
    /\ rs.client = "none"
    /\ ra' = [ra EXCEPT !.exhausted = TRUE]
    /\ UNCHANGED << extVars, now, req, started, memVars, epoch, rdb, serviceUp, rs, admitted,
                    sequential, storeVars >>

\* the server (or the network) goes away: every open connection is broken
ServiceDown ==
    /\ serviceUp
    /\ serviceUp' = FALSE
    /\ rs' = [rs EXCEPT !.client = IF @ = "live" THEN "dead" ELSE @]
    /\ ra' = [ra EXCEPT !.inner = IF @ = "live" THEN "dead" ELSE @]
    /\ UNCHANGED << extVars, now, req, started, memVars, rdb, epoch, admitted, sequential, storeVars >>

ServiceUp ==
    /\ ~serviceUp
    /\ serviceUp' = TRUE
    /\ UNCHANGED << extVars, now, req, started, memVars, rdb, rs, ra, epoch, admitted,
                    sequential, storeVars >>

RedisTick ==
    /\ now < MaxTime
    /\ now' = now + 1
    /\ rdb' = [k \in {x \in DOMAIN rdb :
                        rdb[x].expiry = NoTTL \/ rdb[x].expiry > now + 1} |-> rdb[k]]
    /\ UNCHANGED << extVars, req, started, memVars, serviceUp, rs, ra, epoch, admitted,
                    sequential, storeVars >>

RsInit == [state |-> "connecting", client |-> "none", stop |-> FALSE,
           level |-> RsBackoffReset]
RaInit == [state |-> "waiting", inner |-> "none", stop |-> FALSE, exhausted |-> FALSE]

InitCommon ==
    /\ now = 0
    /\ req = [r \in Reqs |-> IdleReq]
    /\ started = 0
    /\ inner = << >>
    /\ timers = {}
    /\ alive = TRUE
    /\ rdb = << >>
    /\ mc = << >>
    /\ probe = IdleProbe
    /\ rs = RsInit
    /\ ra = RaInit
    /\ epoch = [k \in Keys |-> 0]
    /\ admitted = [k \in Keys |-> 0]
    /\ sequential = TRUE
    /\ pool = PoolInit
    /\ callers = [c \in Reqs |-> IdleCaller]

\* RateLimiter::new(store).with_interval(..).with_max_requests(max_requests)
Configured == [max_requests |-> max_requests]

InitRedis ==
    /\ InitCommon
    /\ limiter = Configured
    /\ backend = "redis"
    /\ overflow_checks = FALSE
    /\ serviceUp \in BOOLEAN

RedisActorStep ==
    \/ RsConnect
    \/ RsStop
    \/ RaGetAddr
    \/ RaStop

NextRedis ==
    \/ \E r \in Reqs, k \in Keys, idOk \in BOOLEAN : Start(r, k, idOk)
    \/ \E r \in Reqs : RGet(r)
    \/ \E r \in Reqs : RExpire(r)
    \/ \E r \in Reqs : RUpdate(r)
    \/ \E r \in Reqs : RSet(r)
    \/ \E r \in Reqs, svcOk \in BOOLEAN : RCall(r, svcOk)
    \/ RsConnect
    \/ RsStop
    \/ RaGetAddr
    \/ RaStop
    \/ RaBackoffElapsed
    \/ ServiceDown
    \/ ServiceUp
    \/ RedisTick

SpecRedis == InitRedis /\ [][NextRedis]_vars

\* the actix runtime runs every actor step that stays ready
SpecRedisFair == SpecRedis /\ WF_vars(RedisActorStep)

Init ==
    /\ InitCommon
    /\ limiter = Configured
    /\ backend = "memory"
    /\ overflow_checks \in BOOLEAN
    /\ serviceUp = FALSE

Next ==
    \/ \E r \in Reqs, k \in Keys, idOk \in BOOLEAN : Start(r, k, idOk)
    \/ \E r \in Reqs : Get(r)
    \/ \E r \in Reqs : Expire(r)
    \/ \E r \in Reqs : Update(r)
    \/ \E r \in Reqs : Set(r)
    \/ \E r \in Reqs, svcOk \in BOOLEAN : Call(r, svcOk)
    \/ \E t \in timers : Evict(t)
    \/ Tick

Spec == Init /\ [][Next]_vars

(***************************************************************************)
(* SpecConfig: the same middleware and MemoryStore, for a RateLimiter      *)
(* built with RateLimiter::new(store) alone (max_requests: 0,              *)
(* middleware.rs:72-77) or with with_max_requests(n) after it              *)
(* (middleware.rs:86-89).                                                  *)
(***************************************************************************)
InitConfig ==
    /\ InitCommon
    /\ backend = "memory"
    /\ overflow_checks \in BOOLEAN
    /\ serviceUp = FALSE
    /\ limiter \in {[max_requests |-> n] : n \in 0..max_requests}

SpecConfig == InitConfig /\ [][Next]_vars

(***************************************************************************)
(* RedisStoreActor::handle (Remove), src/src/stores/redis.rs:229-239.      *)
(***************************************************************************)
\* DEL key: the number of keys that were removed
CmdDEL(db, k) == IF k \in DOMAIN db THEN 1 ELSE 0

RedisRemove(k) ==
    RedisHandle("Remove",
        RedisDone(Response("Remove", Ok(CmdDEL(rdb, k))), RemoveKey(rdb, k)))

(***************************************************************************)
(* MemcacheStoreActor::handle on a live pool,                              *)
(* src/src/stores/memcached.rs:163-249.  The server holds the count under  *)
(* key and the end of the window, in seconds, under "key:expire".  Every   *)
(* call on the pooled client returns a Result: io[i] tells whether the     *)
(* i-th call of the handler succeeds, and a call that fails changes        *)
(* nothing.  A handler gives [resp, mc].                                   *)
(***************************************************************************)
McDone(resp, db) == [resp |-> resp, mc |-> db]

\* format!("{}:expire", key)
ExKey(k) == k \o ":expire"

\* the entry a set command writes: exptime 0 means the item never expires
McItem(value, expiry) ==
    [value |-> value,
     expiry |-> IF AsSecs(expiry) = 0 THEN NoTTL ELSE now + FromSecs(AsSecs(expiry))]

\* .unwrap() on an Err: the future that the caller awaits panics
McUnwrapPanic(tag) == Response(tag, Err("panic(unwrap on Err)"))

\* memcached.rs:170-190: the result of the first set is reported, the result
\* of the second is unwrapped
McSet(k, value, expiry, io) ==
    LET db1 == IF io[1] THEN Insert(mc, k, McItem(value, expiry)) ELSE mc
        db2 == IF io[2] THEN Insert(db1, ExKey(k), McItem(AsSecs(now + expiry), expiry))
               ELSE db1
    IN IF ~io[2] THEN McDone(McUnwrapPanic("Set"), db2)
       ELSE IF io[1] THEN McDone(Response("Set", Ok(<< >>)), db2)
       ELSE McDone(Response("Set", Err("ReadWriteError(io)")), db2)

\* memcached.rs:191-199: decr stops at 0 and fails on a missing key
McUpdate(k, value, io) ==
    IF ~io[1] THEN McDone(Response("Update", Err("ReadWriteError(io)")), mc)
    ELSE IF k \in DOMAIN mc
    THEN LET c == IF mc[k].value >= value THEN mc[k].value - value ELSE 0
         IN McDone(Response("Update", Ok(c)), [mc EXCEPT ![k].value = c])
    ELSE McDone(Response("Update", Err("ReadWriteError(not found)")), mc)

\* memcached.rs:200-211
McGet(k, io) ==
    IF ~io[1] THEN McDone(Response("Get", Err("ReadWriteError(io)")), mc)
    ELSE IF k \in DOMAIN mc
    THEN McDone(Response("Get", Ok(Some(mc[k].value))), mc)
    ELSE McDone(Response("Get", Err("ReadWriteError(key not found)")), mc)

\* memcached.rs:212-230
McExpire(k, io) ==
    IF ~io[1] THEN McDone(Response("Expire", Err("ReadWriteError(io)")), mc)
    ELSE IF ExKey(k) \in DOMAIN mc
    THEN LET d == mc[ExKey(k)].value
             secs == AsSecs(now)
         IN McDone(Response("Expire", Ok(FromSecs(IF d >= secs THEN d - secs ELSE 0))),
                   mc)
    ELSE McDone(Response("Expire", Err("ReadWriteError(no expiration data)")), mc)

\* memcached.rs:231-238: the result of the first delete is reported as Ok(1)
\* whether or not the key was there, the result of the second is dropped
McRemove(k, io) ==
    LET db1 == IF io[1] THEN RemoveKey(mc, k) ELSE mc
        db2 == IF io[2] THEN RemoveKey(db1, ExKey(k)) ELSE db1
    IN IF io[1] THEN McDone(Response("Remove", Ok(1)), db2)
       ELSE McDone(Response("Remove", Err("ReadWriteError(io)")), db2)

(***************************************************************************)
(* SpecStore: a client that sends ActorMessage values straight to a store  *)
(* actor and awaits the answers, as the tests of the stores do             *)
(* (memory.rs:128-223, redis.rs:256-354).  The remote stores are connected.*)
(***************************************************************************)
Backends == {"memory", "redis", "memcached"}

\* the handler of the store in use, as [resp, inner, timers, panic, rdb, mc, stop]
StoreHandle(op, k, value, expiry, io) ==
    CASE backend = "memory" ->
           LET h == MemorySend(CASE op = "Set" -> MemorySet(k, value, expiry)
                                 [] op = "Update" -> MemoryUpdate(k, value)
                                 [] op = "Get" -> MemoryGet(k)
                                 [] op = "Expire" -> MemoryExpire(k)
                                 [] op = "Remove" -> MemoryRemove(k))
           IN [resp |-> h.resp, inner |-> h.inner, timers |-> h.timers,
               panic |-> h.panic, rdb |-> rdb, mc |-> mc, stop |-> FALSE]
      [] backend = "redis" ->
           LET h == CASE op = "Set" -> RedisSet(k, value, expiry)
                      [] op = "Update" -> RedisUpdate(k, value)
                      [] op = "Get" -> RedisGet(k)
                      [] op = "Expire" -> RedisExpire(k)
                      [] op = "Remove" -> RedisRemove(k)
           IN [resp |-> h.resp, inner |-> inner, timers |-> timers,
               panic |-> FALSE, rdb |-> h.rdb, mc |-> mc, stop |-> h.stop]
      [] backend = "memcached" ->
           LET h == CASE op = "Set" -> McSet(k, value, expiry, io)
                      [] op = "Update" -> McUpdate(k, value, io)
                      [] op = "Get" -> McGet(k, io)
                      [] op = "Expire" -> McExpire(k, io)
                      [] op = "Remove" -> McRemove(k, io)
           IN [resp |-> h.resp, inner |-> inner, timers |-> timers,
               panic |-> FALSE, rdb |-> rdb, mc |-> h.mc, stop |-> FALSE]

\* addr.send(msg).await, then the await of the future inside the response
Probe(op, k, value, expiry, io) ==
    /\ probe.n < MaxOps
    /\ LET h == StoreHandle(op, k, value, expiry, io)
           ok == h.resp.res.ok
       IN /\ inner' = h.inner
          /\ timers' = h.timers
          /\ alive' = (alive /\ ~h.panic)
          /\ rdb' = h.rdb
          /\ mc' = h.mc
          /\ ra' = IF h.stop THEN RaRestarted ELSE ra
          /\ probe' = [n |-> probe.n + 1, op |-> op, key |-> k, arg |-> value,
                       tag |-> h.resp.tag, res |-> h.resp.res, at |-> now,
                       io |-> io,
                       set |-> IF op = "Set"
                               THEN IF ok
                                    THEN Some([value |-> value, ttl |-> expiry, at |-> now])
                                    ELSE None
                               ELSE probe.set,
                       expired |-> IF op = "Set" THEN << >>
                                   ELSE IF op = "Expire" /\ ok
                                        THEN Append(probe.expired, h.resp.res.val)
                                        ELSE probe.expired]
    /\ UNCHANGED << extVars, now, req, started, overflow_checks, serviceUp, rs, epoch,
                    admitted, sequential, backend >>

\* the outcomes of the client calls of one handler: the memcached handlers
\* of Set and Remove make two calls, the others one
IoOutcomes(calls) ==
    {<<a, b>> : a \in BOOLEAN, b \in (IF calls = 2 THEN BOOLEAN ELSE {TRUE})}

\* every call goes through
IoAllOk == <<TRUE, TRUE>>

PSet(k, value, secs, io) == Probe("Set", k, value, FromSecs(secs), io)
PUpdate(k, value, io) == Probe("Update", k, value, 0, io)
PGet(k, io) == Probe("Get", k, 0, 0, io)
PExpire(k, io) == Probe("Expire", k, 0, 0, io)
PRemove(k, io) == Probe("Remove", k, 0, 0, io)

\* the deferred Messages::Remove(key) of MemoryStore reaches the handler
PEvict(t) ==
    /\ alive
    /\ t \in timers
    /\ t.due <= now
    /\ LET h == MemoryRemove(t.key)
       IN /\ inner' = h.inner
          /\ timers' = h.timers \ {t}
    /\ probe' = [probe EXCEPT !.op = "Evict"]
    /\ UNCHANGED << extVars, now, req, started, alive, overflow_checks, redisVars, admitted,
                    sequential, backend, mc >>

\* the keys of a remote keyspace that are still there at time t
Unexpired(db, t) ==
    [k \in {x \in DOMAIN db : db[x].expiry = NoTTL \/ db[x].expiry > t} |-> db[k]]

PTick ==
    /\ now < MaxTime
    /\ \A t \in timers : now < t.due + MaxLate
    /\ now' = now + 1
    /\ rdb' = Unexpired(rdb, now + 1)
    /\ mc' = Unexpired(mc, now + 1)
    /\ UNCHANGED << extVars, req, started, memVars, serviceUp, rs, ra, epoch, admitted,
                    sequential, backend, probe >>

InitStore ==
    /\ now = 0
    /\ req = [r \in Reqs |-> IdleReq]
    /\ started = 0
    /\ inner = << >>
    /\ timers = {}
    /\ alive = TRUE
    /\ rdb = << >>
    /\ mc = << >>
    /\ probe = IdleProbe
    /\ backend \in Backends
    /\ overflow_checks \in (IF backend = "memory" THEN BOOLEAN ELSE {FALSE})
    /\ serviceUp = TRUE
    /\ rs = [RsInit EXCEPT !.state = "connected", !.client = "live"]
    /\ ra = [RaInit EXCEPT !.state = "running", !.inner = "live"]
    /\ epoch = [k \in Keys |-> 0]
    /\ admitted = [k \in Keys |-> 0]
    /\ sequential = TRUE
    /\ limiter = Configured
    /\ pool = PoolInit
    /\ callers = [c \in Reqs |-> IdleCaller]

NextStore ==
    \/ \E k \in Keys, value \in 0..max_requests, secs \in interval..(interval + 1) :
           PSet(k, value, secs, IoAllOk)
    \/ \E k \in Keys, value \in 1..max_requests : PUpdate(k, value, IoAllOk)
    \/ \E k \in Keys : PGet(k, IoAllOk)
    \/ \E k \in Keys : PExpire(k, IoAllOk)
    \/ \E k \in Keys : PRemove(k, IoAllOk)
    \/ \E t \in timers : PEvict(t)
    \/ PTick

SpecStore == InitStore /\ [][NextStore]_vars

(***************************************************************************)
(* SpecMemcached: the same client against MemcacheStoreActor, with calls   *)
(* to the memcached server that may fail one by one.                       *)
(***************************************************************************)
InitMemcached == InitStore /\ backend = "memcached"

\* client identifiers, as a function given to with_identifier may return
\* them (middleware.rs:91-98): a client, and a client whose identifier is the
\* name of the first one's second key
McClients == Keys \cup {ExKey(k) : k \in Keys}

NextMemcached ==
    \/ \E k \in McClients, value \in 0..max_requests, secs \in interval..(interval + 1),
          io \in IoOutcomes(2) :
           PSet(k, value, secs, io)
    \/ \E k \in McClients, value \in 1..max_requests, io \in IoOutcomes(1) :
           PUpdate(k, value, io)
    \/ \E k \in McClients, io \in IoOutcomes(1) : PGet(k, io)
    \/ \E k \in McClients, io \in IoOutcomes(1) : PExpire(k, io)
    \/ \E k \in McClients, io \in IoOutcomes(2) : PRemove(k, io)
    \/ PTick

SpecMemcached == InitMemcached /\ [][NextMemcached]_vars

(***************************************************************************)
(* Claims checked under Spec (MemoryStore).                                *)
(***************************************************************************)

\* C1: for every client identifier and every window, the number of requests
\* forwarded to the wrapped service in that window is at most max_requests,
\* whatever the interleaving of that client's concurrent requests.
C1_AdmittedAtMostMax ==
    \A k \in Keys : admitted[k] <= max_requests

\* C2: when Get returned None the store is Set to max_requests - 1 with
\* expiry = interval, the request is forwarded, and the response reports
\* limit = max_requests, remaining = max_requests - 1, reset = interval.
C2_SetWritesNewWindow ==
    \A r \in Reqs :
        (req[r].pc = "set" /\ req'[r].pc = "call") =>
            /\ req[r].key \in DOMAIN inner'
            /\ inner'[req[r].key] =
                   [count |-> max_requests - 1, expiry |-> now + FromSecs(interval)]
            /\ \E t \in timers' \ timers :
                   t.key = req[r].key /\ t.due = now + FromSecs(interval)

C2_NewClientReported ==
    \A r \in Reqs :
        (req[r].branch = "new" /\ req[r].pc = "done" /\ ~req[r].failed) =>
            /\ req[r].forwarded
            /\ req[r].status = 200 =>
                   /\ req[r].limit = max_requests
                   /\ req[r].remaining = max_requests - 1
                   /\ req[r].hreset = interval

C2_NewClient == [][C2_SetWritesNewWindow]_vars /\ []C2_NewClientReported

C2_Witness ==
    \E r \in Reqs :
        /\ req[r].branch = "new"
        /\ req[r].status = 200
        /\ req[r].remaining = max_requests - 1
        /\ req[r].hreset = interval

\* C3: for requests of one key issued one after another, the n-th request
\* forwarded in a window reports remaining = max_requests - n, so the reported
\* values are max_requests - 1, max_requests - 2, ..., 0.
C3_RemainingCountsDown ==
    sequential =>
        \A r \in Reqs :
            req[r].status = 200 =>
                /\ req[r].idx \in 1..max_requests
                /\ req[r].remaining = max_requests - req[r].idx

C3_Witness ==
    /\ sequential
    /\ \E r \in Reqs :
           /\ req[r].status = 200
           /\ req[r].branch = "existing"
           /\ req[r].idx = max_requests
           /\ req[r].remaining = 0

\* C4: once the stored count of a key is 0 it stays 0, and the entry stays in
\* the store, until the window elapses (so every further request in the window
\* is denied and none is admitted).
C4_ZeroUntilWindowEnds ==
    [][\A k \in DOMAIN inner :
           (inner[k].count = 0 /\ now' < inner[k].expiry) =>
               (k \in DOMAIN inner' /\ inner'[k].count = 0)]_vars

\* C5: after the expiry_duration given to Set has elapsed, a request's Get
\* returns None and the request goes to the new-window branch; it is not
\* rejected as an error.
C5_FreshWindowAfterExpiry ==
    [][\A r \in Reqs :
           ( /\ req[r].pc = "get" /\ req'[r].pc # "get"
             /\ req[r].key \in DOMAIN inner
             /\ now > inner[req[r].key].expiry ) =>
               req'[r].pc = "set"]_vars

(***************************************************************************)
(* Claims checked under SpecRedis and SpecRedisFair (RedisStoreActor).     *)
(***************************************************************************)

\* C6: fail-closed: a request one of whose store operations failed (an error
\* result, or a message that could not be delivered) is rejected with an
\* internal error (500) and is never forwarded to the wrapped service.
C6_FailClosed ==
    \A r \in Reqs :
        req[r].failed =>
            /\ req[r].pc = "done"
            /\ ~req[r].forwarded
            /\ req[r].status = 500

\* C7: limit-exceeded and error rejections are distinguishable: a denial for
\* the limit is a 429 carrying limit, remaining and reset, every rejection for
\* an error is a 500, and neither is ever reported as the other.
C7_Distinguishable ==
    \A r \in Reqs :
        (req[r].pc = "done" /\ ~req[r].forwarded) =>
            IF req[r].failed \/ req[r].err # ""
            THEN req[r].status = 500 /\ req[r].limit = NoHeader
            ELSE /\ req[r].status = 429
                 /\ req[r].limit = max_requests
                 /\ req[r].remaining = 0
                 /\ req[r].hreset >= 0

C9_RejectedUntilReconnected ==
    [][\A r \in Reqs :
           (req[r].pc \in {"get", "expire", "update", "set"}
            /\ req'[r].pc # req[r].pc) =>
               IF ra.inner = "live"
               THEN req'[r].err \notin {"Disconnected", "ReadWriteError(io)",
                                        "MailboxError"}
               ELSE /\ req'[r].pc = "done"
                    /\ req'[r].failed
                    /\ ~req'[r].forwarded
                    /\ req'[r].status # 200]_vars

C9_Witness ==
    /\ rs.client = "dead"
    /\ ra.inner = "dead"
    /\ \E r \in Reqs :
           /\ req[r].pc = "done"
           /\ req[r].failed
           /\ req[r].err = "ReadWriteError(io)"
           /\ req[r].status = 500

\* C10: if the service eventually accepts connections and keeps accepting
\* them, RedisStore and RedisStoreActor eventually hold a live connection.
C10_EventuallyConnected ==
    <>[]serviceUp => <>[](rs.client = "live" /\ ra.inner = "live")

\* C11: the backoff of the connection supervisor is reset only by a successful
\* attempt: a failed connection attempt leaves the backoff one step further
\* (capped at the maximum interval), so that the delays of consecutive failed
\* attempts grow and never decrease.
C11_BackoffGrowsOnFailure ==
    [][(rs.state = "connecting" /\ rs'.state = "failed") =>
           rs'.level = RsBackoffNext(rs.level)]_vars

(***************************************************************************)
(* Claims checked under SpecStore (every store actor).                     *)
(***************************************************************************)

\* C12: round trip on every backend: a Get of k handled right after a
\* successful Set(k, v, ttl) returns Some(v), and a Remove of k handled right
\* after it returns v.
C12_RoundTrip ==
    [][( /\ probe.op = "Set" /\ probe.res.ok
         /\ probe'.n = probe.n + 1
         /\ probe'.key = probe.key
         /\ probe.at = now ) =>
           /\ probe'.op = "Get" => probe'.res = Ok(Some(probe.arg))
           /\ probe'.op = "Remove" => probe'.res = Ok(probe.arg)]_vars

\* the store in use holds no current entry for k: it was never set, was
\* removed, or its expiry has passed
KeyGone(k) ==
    CASE backend = "memory" -> k \notin DOMAIN inner \/ inner[k].expiry < now
      [] backend = "redis" -> k \notin DOMAIN rdb
      [] backend = "memcached" -> k \notin DOMAIN mc

\* C13: on every backend a Get of a key that was never set, has expired or
\* was removed returns the successful result None, not an error.
C13_GetOfMissingKeyIsNone ==
    [][( /\ probe'.n = probe.n + 1
         /\ probe'.op = "Get"
         /\ alive
         /\ KeyGone(probe'.key) ) =>
           probe'.res = Ok(None)]_vars

\* C14: the durations that the successful Expire(k) messages return in the
\* window opened by Set(k, v, ttl) are at most ttl, not negative, and do not
\* increase from one Expire to the next.
C14_ExpireBoundedAndNonIncreasing ==
    probe.set # None =>
        \A i \in 1..Len(probe.expired) :
            /\ probe.expired[i] >= 0
            /\ probe.expired[i] <= probe.set[1].ttl
            /\ \A j \in 1..Len(probe.expired) :
                   i < j => probe.expired[j] <= probe.expired[i]

C14_Witness ==
    /\ probe.set # None
    /\ Len(probe.expired) >= 2
    /\ probe.expired[1] = probe.set[1].ttl
    /\ probe.expired[2] < probe.expired[1]

(***************************************************************************)
(* Further claims checked under Spec (MemoryStore).                        *)
(***************************************************************************)

\* C15: every response of an allowed request and every limit-exceeded denial
\* carries limit = max_requests, and an allowed request on an existing key
\* reports as remaining the value its own Update returned, which is the count
\* the store holds right after the decrement, not the value Get read.
C15_ReportsOwnUpdate ==
    [][\A r \in Reqs :
           /\ (req[r].pc = "update" /\ req'[r].pc = "call") =>
                  req'[r].value = inner'[req[r].key].count
           /\ (req[r].pc = "call" /\ req'[r].status = 200) =>
                  /\ req'[r].limit = max_requests
                  /\ req'[r].remaining = req[r].value
           /\ req'[r].status = 429 => req'[r].limit = max_requests]_vars

C15_Witness ==
    \E r \in Reqs :
        /\ req[r].branch = "existing"
        /\ req[r].status = 200
        /\ req[r].limit = max_requests
        /\ req[r].remaining # req[r].c - 1

\* C16: every stored counter is between 0 and max_requests: a decrement
\* never takes a counter below zero or wraps it around.
C16_CounterInRange ==
    \A k \in DOMAIN inner :
        inner[k].count >= 0 /\ inner[k].count <= max_requests

\* C20: the admission procedure issues Set for a key only to open a new
\* window: when the Set of a request is handled the store holds no entry for
\* its key.
C20_SetOnlyOpensWindow ==
    [][\A r \in Reqs :
           (req[r].pc = "set" /\ req'[r].pc # "set") =>
               req[r].key \notin DOMAIN inner]_vars

(***************************************************************************)
(* Further claims checked under SpecStore (every store actor).             *)
(***************************************************************************)

\* C17: on every backend an Update of a key that has no current entry fails
\* with an error and leaves the store as it was: no entry is created.
C17_UpdateOfMissingKeyFails ==
    [][( /\ probe'.n = probe.n + 1
         /\ probe'.op = "Update"
         /\ alive
         /\ KeyGone(probe'.key) ) =>
           /\ ~probe'.res.ok
           /\ inner' = inner
           /\ rdb' = rdb
           /\ mc' = mc]_vars

\* C18: an Update that the store handles never changes the expiry of the
\* entry it decrements nor the pending eviction: both stay as the Set that
\* opened the window fixed them.
C18_UpdateKeepsExpiry ==
    [][( /\ probe'.n = probe.n + 1
         /\ probe'.op = "Update"
         /\ alive' ) =>
           LET k == probe'.key
           IN /\ timers' = timers
              /\ k \in DOMAIN inner =>
                     k \in DOMAIN inner' /\ inner'[k].expiry = inner[k].expiry
              /\ k \in DOMAIN rdb =>
                     k \in DOMAIN rdb' /\ rdb'[k].expiry = rdb[k].expiry
              /\ \A x \in {k, ExKey(k)} :
                     x \in DOMAIN mc =>
                         x \in DOMAIN mc' /\ mc'[x].expiry = mc[x].expiry
              /\ ExKey(k) \in DOMAIN mc => mc'[ExKey(k)] = mc[ExKey(k)]]_vars

C18_Witness ==
    /\ backend = "redis"
    /\ probe.op = "Update" /\ probe.res.ok
    /\ probe.set # None
    /\ now > probe.set[1].at
    /\ probe.key \in DOMAIN rdb
    /\ rdb[probe.key].value < probe.set[1].value
    /\ rdb[probe.key].expiry = probe.set[1].at + probe.set[1].ttl

\* C19: Set (re)arms a single eviction timer: for every key at most one
\* eviction is pending at any time, and an eviction scheduled by an earlier
\* Set never removes the entry of a later Set before that entry's own expiry.
C19_SingleEvictionTimer ==
    /\ \A k \in Keys : Cardinality({t \in timers : t.key = k}) <= 1
    /\ \A t \in timers : t.key \in DOMAIN inner => t.due = inner[t.key].expiry

(***************************************************************************)
(* Further claims checked under SpecRedis (RedisStoreActor).               *)
(***************************************************************************)

\* C21: whatever the state of the connection, the answer of the store actor
\* to a command carries the variant of that command, and no request reaches
\* an unreachable!() branch of the admission procedure.
C21_ResponseMirrorsCommand ==
    /\ ra.state = "running" =>
           \A k \in Keys :
               /\ RedisGet(k).resp.tag = "Get"
               /\ RedisExpire(k).resp.tag = "Expire"
               /\ RedisSet(k, NewClientValue, FromSecs(interval)).resp.tag = "Set"
               /\ RedisRemove(k).resp.tag = "Remove"
    /\ \A r \in Reqs : req[r].pc = "done" => req[r].status # -1

\* C22: a store command submitted while the actor holds no live connection is
\* answered at once (with NotConnected or Disconnected): it never has to wait
\* for a connection attempt or a connection hand-over to finish.
C22_NeverQueuedWhileConnecting ==
    \A r \in Reqs :
        (req[r].pc \in {"get", "expire", "update", "set"} /\ ra.inner # "live") =>
            ra.state = "running"

\* C23: when a command fails with an I/O error on the connection the actor
\* holds, the actor gives that connection up (it goes back to connecting), so
\* that later commands use a new one.
C23_IoFailureDropsConnection ==
    [][\A r \in Reqs :
           (req'[r].err = "ReadWriteError(io)" /\ req[r].err # "ReadWriteError(io)") =>
               ra'.inner # "dead"]_vars

(***************************************************************************)
(* Further claims checked under Spec (MemoryStore).                        *)
(***************************************************************************)

\* C24: a request that is denied because the limit is spent has sent Get and
\* Expire only, and neither of its two store steps changed the store: the
\* count and the expiry of its key are after the denial what they were before.
C24_DeniedLeavesStore ==
    [][\A r \in Reqs :
           /\ (req'[r].status = 429 /\ req[r].status # 429) =>
                  /\ req[r].pc = "expire" /\ req[r].branch = "existing"
                  /\ ~req'[r].forwarded
                  /\ inner' = inner /\ timers' = timers
           /\ (req[r].pc = "get" /\ req'[r].pc = "expire" /\ req'[r].c = 0) =>
                  (inner' = inner /\ timers' = timers)]_vars

C24_Witness ==
    \E r \in Reqs :
        /\ req[r].pc = "done" /\ req[r].status = 429
        /\ req[r].key \in DOMAIN inner /\ inner[req[r].key].count = 0

\* C25: a request whose identifier function failed is rejected with status
\* 500 in the step that called the identifier: it sends no store command, the
\* store is as it was, and the wrapped service is never called for it.
C25_RejectedAtIdentifier ==
    \A r \in Reqs :
        ~req[r].identified =>
            /\ req[r].pc = "done" /\ req[r].status = 500
            /\ req[r].err = "IdentificationError" /\ ~req[r].forwarded
            /\ req[r].branch = "none"

C25_StoreUntouched ==
    \A r \in Reqs :
        (~req'[r].identified /\ req'[r] # req[r]) =>
            (inner' = inner /\ timers' = timers /\ alive' = alive /\ admitted' = admitted)

C25_IdentifierFailure == [][C25_StoreUntouched]_vars /\ []C25_RejectedAtIdentifier

C25_Witness ==
    /\ \E r \in Reqs : ~req[r].identified /\ req[r].pc = "done"
    /\ \E k \in DOMAIN inner : inner[k].count < NewClientValue

(***************************************************************************)
(* Further claims checked under SpecStore (every store actor) and under    *)
(* SpecMemcached.                                                          *)
(***************************************************************************)

\* C26: Expire(k) answers with an error when k has no active window (it was
\* never set, was removed, has expired, or is there without a time to live),
\* and answers with a duration for every key whose window has not ended yet.
C26_ExpireFailsIffNoWindow ==
    [][( /\ probe'.n = probe.n + 1
         /\ probe'.op = "Expire"
         /\ alive ) =>
           LET k == probe'.key
               noWindow ==
                   CASE backend = "memory" -> k \notin DOMAIN inner \/ inner[k].expiry < now
                     [] backend = "redis" -> k \notin DOMAIN rdb \/ rdb[k].expiry = NoTTL
                     [] backend = "memcached" ->
                            k \notin DOMAIN mc /\ ExKey(k) \notin DOMAIN mc
               inWindow ==
                   CASE backend = "memory" -> k \in DOMAIN inner /\ inner[k].expiry > now
                     [] backend = "redis" -> k \in DOMAIN rdb /\ rdb[k].expiry > now
                     [] backend = "memcached" ->
                            /\ k \in DOMAIN mc /\ ExKey(k) \in DOMAIN mc
                            /\ mc[k].expiry > now
           IN /\ noWindow => (probe'.tag = "Expire" /\ ~probe'.res.ok)
              /\ inWindow => probe'.res.ok]_vars

\* C27: Remove(k) deletes the entry of k and answers with the value the entry
\* held; for a key that is not there it answers Ok(0) and changes nothing.
C27_RemoveReturnsValueHeld ==
    [][( /\ probe'.n = probe.n + 1
         /\ probe'.op = "Remove"
         /\ alive ) =>
           LET k == probe'.key
               db == CASE backend = "memory" ->
                            [x \in DOMAIN inner |-> inner[x].count]
                       [] backend = "redis" -> [x \in DOMAIN rdb |-> rdb[x].value]
                       [] backend = "memcached" -> [x \in DOMAIN mc |-> mc[x].value]
           IN /\ k \notin DOMAIN inner' /\ k \notin DOMAIN rdb' /\ k \notin DOMAIN mc'
              /\ IF k \in DOMAIN db
                 THEN probe'.res = Ok(db[k])
                 ELSE /\ probe'.res = Ok(0)
                      /\ inner' = inner /\ rdb' = rdb /\ mc' = mc]_vars

\* C28: in the memory store an entry is not observable once the clock is past
\* its stored expiry, whether or not the deferred Remove was handled: Get does
\* not answer with the old count, and Expire and Update answer with an error,
\* not with stale data and not with a crash of the actor.
C28_NothingObservablePastExpiry ==
    [][( /\ backend = "memory"
         /\ probe'.n = probe.n + 1
         /\ alive
         /\ probe'.key \in DOMAIN inner
         /\ inner[probe'.key].expiry < now ) =>
           /\ alive'
           /\ probe'.op = "Get" => probe'.res = Ok(None)
           /\ probe'.op \in {"Expire", "Update"} =>
                  (probe'.tag = probe'.op /\ ~probe'.res.ok)]_vars

\* C29: in the memcached store a Set that reports success has written the
\* count under key and the end of the window under key:expire, both with the
\* same time to live; a Set of which one of the two writes failed reports a
\* ReadWriteError.
C29_SetWritesBothOrFails ==
    [][( /\ backend = "memcached"
         /\ probe'.n = probe.n + 1
         /\ probe'.op = "Set" ) =>
           LET k == probe'.key
           IN /\ probe'.res.ok =>
                     /\ k \in DOMAIN mc' /\ ExKey(k) \in DOMAIN mc'
                     /\ mc'[k].value = probe'.arg
                     /\ mc'[ExKey(k)].value = AsSecs(now + probe'.set[1].ttl)
                     /\ mc'[ExKey(k)].expiry = mc'[k].expiry
              /\ probe'.io # IoAllOk =>
                     /\ probe'.tag = "Set"
                     /\ probe'.res = Err("ReadWriteError(io)")]_vars

\* C30: in the memcached store, once Remove(k) has reported success neither
\* key nor key:expire is in the server.
C30_RemoveLeavesNoKey ==
    [][( /\ backend = "memcached"
         /\ probe'.n = probe.n + 1
         /\ probe'.op = "Remove"
         /\ probe'.res.ok ) =>
           /\ probe'.key \notin DOMAIN mc'
           /\ ExKey(probe'.key) \notin DOMAIN mc']_vars

(***************************************************************************)
(* Further claims checked under SpecRedis (RedisStoreActor).               *)
(***************************************************************************)

\* C35: every counter key that is in the redis keyspace has a time to live:
\* no run of the admission procedure, with keys expiring in between, leaves
\* a counter key that never expires.
C35_EveryKeyHasTTL ==
    \A k \in DOMAIN rdb : rdb[k].expiry # NoTTL

(***************************************************************************)
(* Further claims checked under Spec (MemoryStore).                        *)
(***************************************************************************)

\* C37: a request gets to the wrapped service only from its own store write
\* (Set on the new-client branch, Update on the other) and only when the
\* store handled that write; a denied or rejected request is never forwarded;
\* the call of the service, failing or not, gives nothing back to the store.
C37_WriteThenCall ==
    \A r \in Reqs :
        LET k == req[r].key
        IN /\ (req'[r].pc = "call" /\ req[r].pc # "call") =>
                  /\ req[r].pc \in {"set", "update"}
                  /\ alive /\ alive'
                  /\ k \in DOMAIN inner'
                  /\ req[r].pc = "set" => inner'[k].count = NewClientValue
                  /\ req[r].pc = "update" =>
                         (k \in DOMAIN inner /\ inner'[k].count = req'[r].value)
           /\ (req'[r].forwarded /\ ~req[r].forwarded) => req[r].pc = "call"
           /\ (req[r].pc = "call" /\ req'[r].pc = "done") =>
                  (inner' = inner /\ timers' = timers)

C37_NotForwardedWhenRefused ==
    \A r \in Reqs :
        (req[r].status = 429 \/ req[r].failed \/ ~req[r].identified) => ~req[r].forwarded

C37_ServiceAfterOwnWrite == [][C37_WriteThenCall]_vars /\ []C37_NotForwardedWhenRefused

C37_Witness ==
    \E r \in Reqs :
        /\ req[r].pc = "done" /\ req[r].forwarded
        /\ req[r].status = 500 /\ req[r].err = "service"
        /\ req[r].key \in DOMAIN inner
        /\ inner[req[r].key].count < max_requests

C34_EveryEntryHasEviction ==
    alive =>
        \A k \in DOMAIN inner :
            /\ \E t \in timers : t.key = k /\ t.due = inner[k].expiry
            /\ now <= inner[k].expiry + MaxLate

C34_Witness ==
    /\ alive
    /\ \E k \in DOMAIN inner : inner[k].count = 0 /\ now > inner[k].expiry
    /\ \E r \in Reqs : req[r].status = 429

(***************************************************************************)
(* SpecLib: RateLimitMiddleware::call of the crate root, src/src/lib.rs    *)
(* :220-301, with its own Messages (Get, Set, Expire, Remove) and          *)
(* Responses, whose futures give plain values.  The store actor of this    *)
(* revision is not among the sources: LibStoreGet, LibStoreExpire and      *)
(* LibStoreSet are the store as the types of lib.rs:63-78 describe it, a   *)
(* map from key to (count, expiry) in inner.  The arms for an answer of    *)
(* another variant than the message (lib.rs:237-240, 274-298) are not      *)
(* taken against such a store.                                             *)
(***************************************************************************)
\* Responses::Get: Option<usize>
LibStoreGet(k) == IF k \in DOMAIN inner THEN Some(inner[k].count) ELSE None

\* Responses::Expire: Duration
LibStoreExpire(k) ==
    IF k \in DOMAIN inner /\ inner[k].expiry >= now THEN inner[k].expiry - now ELSE 0

\* Messages::Set {key, value, expiry: None}: the count is replaced
LibStoreSet(k, value) ==
    IF k \in DOMAIN inner THEN [inner EXCEPT ![k].count = value]
    ELSE Insert(inner, k, [count |-> value, expiry |-> now])

\* lib.rs:229-233: c.await.unwrap() on the Option that Get gives
LibAfterGet(rq, got) ==
    IF got = None THEN Panicked(rq, "unwrap on None")
    ELSE [rq EXCEPT !.pc = "expire", !.branch = "existing", !.c = got[1]]

\* lib.rs:234-249
LibAfterExpire(rq, reset) ==
    IF rq.c = 0 THEN TooManyRequests(rq, reset)
    ELSE [rq EXCEPT !.pc = "set", !.reset = reset]

\* lib.rs:253: the value sent with Set for an admitted request
LibNextValue(c) == c + 1

\* lib.rs:254-270: remaining is the c that Get gave
LibAfterCall(rq, svcOk) ==
    IF svcOk
    THEN [rq EXCEPT !.pc = "done", !.status = 200, !.forwarded = TRUE,
                    !.limit = max_requests, !.remaining = rq.c,
                    !.hreset = AsSecs(rq.reset), !.reset = 0]
    ELSE [rq EXCEPT !.pc = "done", !.status = 500, !.forwarded = TRUE,
                    !.err = "service", !.reset = 0]

LibUnchanged ==
    UNCHANGED << extVars, now, timers, alive, overflow_checks, redisVars, admitted, sequential,
                 storeVars >>

\* lib.rs:228
LStart(r, k) ==
    /\ ~InFlight(r)
    /\ started < MaxStarts
    /\ started' = started + 1
    /\ req' = [req EXCEPT ![r] = [IdleReq EXCEPT !.pc = "get", !.key = k]]
    /\ inner' = inner
    /\ LibUnchanged

LGet(r) ==
    /\ req[r].pc = "get"
    /\ req' = [req EXCEPT ![r] = LibAfterGet(@, LibStoreGet(req[r].key))]
    /\ UNCHANGED << started, inner >>
    /\ LibUnchanged

LExpire(r) ==
    /\ req[r].pc = "expire"
    /\ req' = [req EXCEPT ![r] = LibAfterExpire(@, LibStoreExpire(req[r].key))]
    /\ UNCHANGED << started, inner >>
    /\ LibUnchanged

LSet(r) ==
    /\ req[r].pc = "set"
    /\ inner' = LibStoreSet(req[r].key, LibNextValue(req[r].c))
    /\ req' = [req EXCEPT ![r].pc = "call"]
    /\ UNCHANGED started
    /\ LibUnchanged

LCall(r, svcOk) ==
    /\ req[r].pc = "call"
    /\ req' = [req EXCEPT ![r] = LibAfterCall(@, svcOk)]
    /\ UNCHANGED << started, inner >>
    /\ LibUnchanged

\* the store holds no entry for the key, or one that other code has set
InitLib ==
    /\ InitCommon
    /\ limiter = Configured
    /\ backend = "memory"
    /\ overflow_checks = FALSE
    /\ serviceUp = FALSE

LSeed(k, c) ==
    /\ started = 0
    /\ k \notin DOMAIN inner
    /\ inner' = Insert(inner, k, [count |-> c, expiry |-> now + FromSecs(interval)])
    /\ UNCHANGED << req, started >>
    /\ LibUnchanged

NextLib ==
    \/ \E k \in Keys, c \in 0..max_requests : LSeed(k, c)
    \/ \E r \in Reqs, k \in Keys : LStart(r, k)
    \/ \E r \in Reqs : LGet(r)
    \/ \E r \in Reqs : LExpire(r)
    \/ \E r \in Reqs : LSet(r)
    \/ \E r \in Reqs, svcOk \in BOOLEAN : LCall(r, svcOk)

SpecLib == InitLib /\ [][NextLib]_vars

\* C33: in the service of the crate root an admitted request for a key whose
\* entry has count c > 0 leaves c - 1 in the store, so that the requests of
\* one window bring the count to 0.
C33_AllowedRequestDecrements ==
    [][\A r \in Reqs :
           (req[r].pc = "set" /\ req'[r].pc = "call") =>
               /\ req[r].c > 0
               /\ inner'[req[r].key].count = req[r].c - 1]_vars

(***************************************************************************)
(* Further claims checked under SpecMemcached.                             *)
(***************************************************************************)

\* C36: a store operation for one client identifier leaves every key of
\* every other client identifier as it was: its count key and its key:expire
\* are there or not as before, with the value and the expiry they had.
C36_ClientIsolation ==
    [][probe'.n = probe.n + 1 =>
           \A b \in McClients \ {probe'.key} :
               \A x \in {b, ExKey(b)} :
                   /\ (x \in DOMAIN mc') = (x \in DOMAIN mc)
                   /\ x \in DOMAIN mc => mc'[x] = mc[x]]_vars

(***************************************************************************)
(* Claims checked under SpecConfig.                                        *)
(***************************************************************************)

\* C38: with max_requests = 0, as RateLimiter::new leaves it, no request is
\* forwarded, the subtraction max_requests - 1 neither panics nor wraps, and
\* no count above max_requests is stored or reported.
C38_ZeroAdmitsNothing ==
    limiter.max_requests = 0 =>
        /\ \A r \in Reqs :
               /\ ~req[r].forwarded
               /\ req[r].pc # "call"
               /\ req[r].status # -1
               /\ req[r].remaining <= limiter.max_requests
        /\ \A k \in DOMAIN inner : inner[k].count <= limiter.max_requests

(***************************************************************************)
(* SpecPool: MemcacheStore, MemcacheStoreActor and the r2d2 pool,          *)
(* src/src/stores/memcached.rs.  A pool is known by its number; a future   *)
(* that the handler returned holds the connection it checked out until it  *)
(* has run or is dropped (the PooledConnection is moved into the async     *)
(* block, memcached.rs:168-171).                                           *)
(***************************************************************************)
\* the callers whose futures hold a connection of pool p
Holders(p) == {c \in Reqs : callers[c].conn = p}

PoolUnchanged ==
    UNCHANGED << now, req, memVars, redisVars, admitted, sequential, backend, probe,
                 limiter >>

\* memcached.rs:53-77: started() builds a pool of its own; when that fails
\* client stays what it was and ctx.stop() is scheduled
MsStarted(ok) ==
    /\ pool.state = "starting"
    /\ IF ok
       THEN /\ pool.built < MaxPools
            /\ pool' = [pool EXCEPT !.client = pool.built + 1, !.built = @ + 1,
                                    !.state = "running"]
       ELSE pool' = [pool EXCEPT !.state = "running", !.stop = TRUE]
    /\ UNCHANGED << started, mc, callers >>
    /\ PoolUnchanged

\* the scheduled ctx.stop() of MemcacheStore, then restarting()
\* (memcached.rs:80-85): self.client.take()
MsStop ==
    /\ pool.stop
    /\ pool.state = "running"
    /\ pool' = [pool EXCEPT !.stop = FALSE, !.client = 0, !.state = "starting"]
    /\ UNCHANGED << started, mc, callers >>
    /\ PoolUnchanged

\* memcached.rs:111-135 and 87-99: started() of the actor sends GetAddr and
\* waits; the store answers with a clone of its pool or with NotConnected
McaStarted ==
    /\ pool.astate = "waiting"
    /\ pool.state = "running"
    /\ IF pool.client # 0
       THEN pool' = [pool EXCEPT !.inner = pool.client, !.astate = "running"]
       ELSE pool' = [pool EXCEPT !.astate = "running", !.astop = TRUE, !.stop = TRUE]
    /\ UNCHANGED << started, mc, callers >>
    /\ PoolUnchanged

\* ctx.stop() of the actor under its Supervisor: restarting()
\* (memcached.rs:156-160) takes inner, started() runs again
McaRestarted == [pool EXCEPT !.inner = 0, !.astate = "waiting", !.astop = FALSE]

McaStop ==
    /\ pool.astop
    /\ pool.astate = "running"
    /\ pool' = McaRestarted
    /\ UNCHANGED << started, mc, callers >>
    /\ PoolUnchanged

\* addr.send(msg): the message is in the mailbox of the actor
CSend(c, op) ==
    /\ callers[c].pc = "idle"
    /\ started < MaxStarts
    /\ started' = started + 1
    /\ callers' = [callers EXCEPT ![c] = [IdleCaller EXCEPT !.pc = "sent", !.op = op]]
    /\ UNCHANGED << mc, pool >>
    /\ PoolUnchanged

\* memcached.rs:165-169, 240-247: p.get() gives a connection when the pool
\* has one left, and an error (after its timeout) when all are checked out;
\* without a connection the actor stops and answers Set(Err(Disconnected))
McaHandle(c) ==
    /\ callers[c].pc = "sent"
    /\ pool.astate = "running"
    /\ IF pool.inner # 0 /\ Cardinality(Holders(pool.inner)) < PoolSize
       THEN /\ callers' = [callers EXCEPT ![c].pc = "holding", ![c].conn = pool.inner]
            /\ pool' = pool
       ELSE /\ callers' = [callers EXCEPT ![c].pc = "idle",
                                          ![c].res = "Disconnected"]
            /\ pool' = McaRestarted
    /\ UNCHANGED << started, mc >>
    /\ PoolUnchanged

\* the commands the future runs on its connection (memcached.rs:170-238)
CallerRun(c, io) ==
    LET op == callers[c].op
        k == "a"
    IN CASE op = "Set" -> McSet(k, max_requests, FromSecs(interval), io)
         [] op = "Update" -> McUpdate(k, 1, io)
         [] op = "Get" -> McGet(k, io)
         [] op = "Expire" -> McExpire(k, io)
         [] op = "Remove" -> McRemove(k, io)

\* the PooledConnection is dropped with the future: it goes back to its pool
Checkin(cl, resp) ==
    [cl EXCEPT !.pc = "idle", !.conn = 0,
               !.res = IF resp.res.ok THEN "Ok" ELSE resp.res.err]

\* the caller awaits the future of the response
CAwait(c, io) ==
    /\ callers[c].pc = "holding"
    /\ LET h == CallerRun(c, io)
       IN /\ mc' = h.mc
          /\ callers' = [callers EXCEPT ![c] = Checkin(@, h.resp)]
    /\ UNCHANGED << started, pool >>
    /\ PoolUnchanged

InitPool ==
    /\ InitCommon
    /\ backend = "memcached"
    /\ overflow_checks = FALSE
    /\ serviceUp = TRUE
    /\ limiter = Configured

NextPool ==
    \/ \E ok \in BOOLEAN : MsStarted(ok)
    \/ MsStop
    \/ McaStarted
    \/ McaStop
    \/ \E c \in Reqs, op \in {"Set", "Update", "Get", "Expire", "Remove"} : CSend(c, op)
    \/ \E c \in Reqs : McaHandle(c)
    \/ \E c \in Reqs, io \in IoOutcomes(2) : CAwait(c, io)

SpecPool == InitPool /\ [][NextPool]_vars /\ WF_vars(\E c \in Reqs, io \in IoOutcomes(2) : CAwait(c, io))

\* C31: the operations that hold a connection of the memcached pool are never
\* more than the size of the pool.
C31_HoldersWithinPoolSize ==
    Cardinality({c \in Reqs : callers[c].conn # 0}) <= PoolSize

\* a connection that was checked out is given back: the future that holds it
\* runs to its end, on success and on error
C31_ConnectionReturned ==
    \A c \in Reqs : (callers[c].conn # 0) ~> (callers[c].conn = 0)

====
